---- MODULE Spec2Model ----
(***************************************************************************)
(* Inventory ledger accounting of the carwash backend: manual stock        *)
(* adjustments (inventory-logs service), purchase receipts and the         *)
(* requisition workflow (inventory service), service application           *)
(* (services service).  Every handler is a sequence of awaited calls to    *)
(* the hosted database; each awaited call is one atomic step, the local    *)
(* computation between two awaits belongs to the step of the call that     *)
(* precedes it.  Handlers of different requests interleave at the awaits.  *)
(***************************************************************************)
EXTENDS Integers, Sequences, FiniteSets, TLC

VARIABLES products, service_products, inventory_logs, audit_logs, purchases,
          purchase_items, purchase_requisitions, purchase_requisition_items,
          auth_users, users, h, stock_writes

vars == <<products, service_products, inventory_logs, audit_logs, purchases,
          purchase_items, purchase_requisitions, purchase_requisition_items,
          auth_users, users, h, stock_writes>>

(* ------------------------------ bounds -------------------------------- *)
\* number of requests made in one behaviour; all of them can be in flight at
\* once
MaxOps == 2
\* the requests, numbered in the order in which their handlers are entered
Procs == 1..MaxOps

\* the rows of products at the start, product_id being the position
InitProducts ==
    << [stock |-> 10, cost |-> <<2>>, reorder_level |-> 5],
       [stock |-> 10, cost |-> <<>>, reorder_level |-> 5] >>

Products == DOMAIN InitProducts
\* a product_id no row of products has
MissingProduct == Len(InitProducts) + 1

(* --------------------------- optional values --------------------------- *)
\* null/undefined is <<>>, a present value v is <<v>>
Null == <<>>
Some(v) == <<v>>

\* a ?? b
Coalesce(a, b) == IF a # Null THEN a ELSE b

\* a || 0 on a number or null
OrZero(a) == IF a = Null THEN 0 ELSE a[1]

(* ------------------------------ responses ----------------------------- *)
Resp(code, msg) == [code |-> code, msg |-> msg]

Idle == [op |-> "none", pc |-> "idle"]

\* request p has not been made yet and the requests before it have
CanStart(p) ==
    /\ h[p].pc = "idle"
    /\ \A q \in Procs : q < p => h[q].pc # "idle"

\* no request is in flight
Quiescent == \A p \in Procs : h[p].pc \in {"idle", "done"}

(* ------------------------------ requests ------------------------------ *)
\* what the Authorization header of a request carries: no header, a token
\* that does not verify, or a verified token with the given role
Tokens == {"none", "invalid", "user", "employee", "admin"}

(* ------------------------- inventory-logs service ---------------------- *)
\* change values a manual adjustment is called with
Changes == {0 - 12, 0 - 6, 5}

AdjNewStock(previousStock, change) == previousStock + change

AdjUnitCost(productCost) == OrZero(productCost)

TotalCostImpactAbs(change, unitCost) ==
    (IF change < 0 THEN 0 - change ELSE change) * unitCost

TotalCostImpact(change, unitCost) == change * unitCost

\* the database function update_product_stock(p_product_id, p_change): the
\* Stock Mutator, one atomic read-check-write that rejects a negative result
update_product_stock(prods, p_product_id, p_change) ==
    IF prods[p_product_id].stock + p_change < 0
    THEN prods
    ELSE [prods EXCEPT ![p_product_id].stock = @ + p_change]

\* POST /api/inventory-logs: select stock, cost of the product
AdjFetch(p) ==
    /\ CanStart(p)
    /\ \E product_id \in Products \cup {MissingProduct}, change \in Changes :
         LET rid == p IN
         IF product_id \notin Products
         THEN h' = [h EXCEPT ![p] = [op |-> "adjust", pc |-> "done", rid |-> rid,
                                     product_id |-> product_id, change |-> change,
                                     resp |-> Resp(500, "error")]]
         ELSE LET previousStock == products[product_id].stock
                  unitCost == AdjUnitCost(products[product_id].cost)
              IN h' = [h EXCEPT ![p] =
                         [op |-> "adjust", pc |-> "insert_log", rid |-> rid,
                          product_id |-> product_id, change |-> change,
                          previousStock |-> previousStock,
                          newStock |-> AdjNewStock(previousStock, change),
                          unitCost |-> unitCost,
                          totalCostImpact |-> TotalCostImpact(change, unitCost),
                          resp |-> Resp(0, "")]]
    /\ UNCHANGED <<products, service_products, inventory_logs, audit_logs, purchases,
                   purchase_requisitions, stock_writes,
                   purchase_items, purchase_requisition_items,
                   auth_users, users>>

\* insert into inventory_logs
AdjInsertLog(p) ==
    /\ h[p].op = "adjust" /\ h[p].pc = "insert_log"
    /\ inventory_logs' = Append(inventory_logs,
          [rid |-> h[p].rid, product_id |-> h[p].product_id,
           change |-> h[p].change, reason |-> "MANUAL",
           ref_table |-> Null, ref_id |-> Null,
           previous_stock |-> h[p].previousStock,
           new_stock |-> h[p].newStock,
           unit_cost |-> h[p].unitCost,
           total_cost_impact |-> h[p].totalCostImpact,
           unit_cost_col |-> Some(h[p].unitCost),
           total_cost_col |-> Some(h[p].totalCostImpact)])
    /\ h' = [h EXCEPT ![p].pc = "rpc"]
    /\ UNCHANGED <<products, service_products, audit_logs, purchases,
                   purchase_requisitions,
                   stock_writes,
                   purchase_items, purchase_requisition_items,
                   auth_users, users>>

\* rpc update_product_stock; its result is not looked at
AdjRpc(p) ==
    /\ h[p].op = "adjust" /\ h[p].pc = "rpc"
    /\ products' = update_product_stock(products, h[p].product_id, h[p].change)
    /\ stock_writes' = IF products[h[p].product_id].stock + h[p].change >= 0
                       THEN Append(stock_writes,
                                   [rid |-> h[p].rid, product_id |-> h[p].product_id,
                                    delta |-> h[p].change])
                       ELSE stock_writes
    /\ h' = [h EXCEPT ![p].pc = "audit"]
    /\ UNCHANGED <<service_products, inventory_logs, audit_logs, purchases,
                   purchase_requisitions,
                   purchase_items, purchase_requisition_items,
                   auth_users, users>>

\* insert into audit_logs, then respond success
AdjAudit(p) ==
    /\ h[p].op = "adjust" /\ h[p].pc = "audit"
    /\ audit_logs' = Append(audit_logs,
          [rid |-> h[p].rid, action |-> "INVENTORY_UPDATE",
           table_name |-> "products", row_id |-> h[p].product_id,
           change |-> h[p].change, unit_cost |-> h[p].unitCost,
           total_cost_impact |-> h[p].totalCostImpact])
    /\ h' = [h EXCEPT ![p].pc = "done", ![p].resp = Resp(200, "success")]
    /\ UNCHANGED <<products, service_products, inventory_logs, purchases,
                   purchase_requisitions,
                   stock_writes,
                   purchase_items, purchase_requisition_items,
                   auth_users, users>>

(* --------------------------- services service ------------------------- *)
\* a row of service_products
ServiceProduct(service_id, product_id, quantity) ==
    [service_id |-> service_id, variant_id |-> 1, product_id |-> product_id,
     quantity |-> quantity]

\* service ids a request names: those of the rows and one with no row
Services ==
    {service_products[i].service_id : i \in DOMAIN service_products} \cup {0}

\* select product_id, quantity, products(stock) from service_products
\* where service_id = .. and variant_id = ..: one snapshot of the joined rows
ServiceProductsOf(service_id, variant_id) ==
    LET Match(r) == r.service_id = service_id /\ r.variant_id = variant_id
        rows == SelectSeq(service_products, Match)
    IN [i \in 1..Len(rows) |->
           [product_id |-> rows[i].product_id, quantity |-> rows[i].quantity,
            stock |-> products[rows[i].product_id].stock]]

ApplyNewStock(stock, quantity) == stock - quantity

\* the loop body up to its first await, for row idx of the rows read:
\* either the early return or the position of the update being awaited
ApplyLoop(rec, idx) ==
    IF idx > Len(rec.sps)
    THEN [rec EXCEPT !.pc = "done", !.resp = Resp(200, "applied")]
    ELSE IF ApplyNewStock(rec.sps[idx].stock, rec.sps[idx].quantity) < 0
         THEN [rec EXCEPT !.pc = "done", !.resp = Resp(400, "Not enough stock")]
         ELSE [rec EXCEPT !.pc = "update", !.idx = idx]

\* POST /api/service-products/apply: read the linked products
ApplyFetch(p) ==
    /\ CanStart(p)
    /\ \E service_id \in Services :
         LET sps == ServiceProductsOf(service_id, 1)
             rec == [op |-> "apply", pc |-> "fetch", rid |-> p,
                     service_id |-> service_id, sps |-> sps, idx |-> 0,
                     resp |-> Resp(0, "")]
         IN h' = [h EXCEPT ![p] =
                    IF Len(sps) = 0
                    THEN [rec EXCEPT !.pc = "done",
                                     !.resp = Resp(400, "No products linked")]
                    ELSE ApplyLoop(rec, 1)]
    /\ UNCHANGED <<products, service_products, inventory_logs, audit_logs, purchases,
                   purchase_requisitions, stock_writes,
                   purchase_items, purchase_requisition_items,
                   auth_users, users>>

\* update products set stock = newStock for the row's product, then go on
\* with the loop.  The filter names the column id; the model takes it to
\* select the row whose product_id is sp.product_id.
ApplyUpdate(p) ==
    /\ h[p].op = "apply" /\ h[p].pc = "update"
    /\ LET sp == h[p].sps[h[p].idx] IN
         /\ products' = [products EXCEPT ![sp.product_id].stock =
                            ApplyNewStock(sp.stock, sp.quantity)]
         /\ stock_writes' = Append(stock_writes,
                                   [rid |-> h[p].rid, product_id |-> sp.product_id,
                                    delta |-> 0 - sp.quantity])
    /\ h' = [h EXCEPT ![p] = ApplyLoop(h[p], h[p].idx + 1)]
    /\ UNCHANGED <<service_products, inventory_logs, audit_logs, purchases,
                   purchase_requisitions,
                   purchase_items, purchase_requisition_items,
                   auth_users, users>>

(* ---------------------- inventory service: purchases ------------------- *)
Item(product_id, quantity, cost) ==
    [product_id |-> product_id, quantity |-> quantity, cost |-> cost]

\* a row of purchase_items
PurchaseItem(purchase_id, product_id, quantity, cost) ==
    [purchase_id |-> purchase_id, product_id |-> product_id,
     quantity |-> quantity, cost |-> cost]

\* items lists a receipt is called with
ReceiveItemLists ==
    { <<>>,
      << Item(1, 5, Some(3)) >>,
      << Item(1, 5, Null), Item(2, 5, Null) >>,
      << Item(1, 5, Some(3)), Item(MissingProduct, 5, Null), Item(2, 5, Null) >>,
      << Item(1, 0 - 11, Null) >> }

ReceiveNewStock(previousStock, quantity) == previousStock + quantity

\* cost ?? product.cost ?? 0
ReceiveUnitCost(cost, productCost) == Coalesce(cost, Coalesce(productCost, Some(0)))[1]

\* items of the request body of a receipt: absent, or a list
ReceiveBodies == {Null} \cup { Some(items) : items \in ReceiveItemLists }

NoItemsOnlyAbsent(body) == body = Null

\* !items?.length
NoItems(body) == body = Null \/ Len(body[1]) = 0

\* PATCH /api/purchases/:id/receive: update purchases set status = received;
\* the response follows at once when the loop has no item to go through.
\* The route has no middleware: token, the Authorization header the request
\* carries, is never read
RecvEnter(p, token) ==
    /\ CanStart(p)
    /\ \E purchaseId \in 1..(Len(purchases) + 1), body \in ReceiveBodies :
         LET rec == [op |-> "receive", pc |-> "start", rid |-> p, token |-> token,
                     purchaseId |-> purchaseId, body |-> body,
                     items |-> IF body = Null THEN <<>> ELSE body[1], idx |-> 0,
                     wasReceived |-> FALSE, resp |-> Resp(0, "")]
         IN IF NoItems(body)
            THEN /\ h' = [h EXCEPT ![p] = [rec EXCEPT !.pc = "done",
                                             !.resp = Resp(400, "No items provided")]]
                 /\ purchases' = purchases
            ELSE IF purchaseId > Len(purchases)
            THEN /\ h' = [h EXCEPT ![p] = [rec EXCEPT !.pc = "done",
                                             !.resp = Resp(500, "error")]]
                 /\ purchases' = purchases
            ELSE /\ h' = [h EXCEPT ![p] =
                            [rec EXCEPT !.pc = IF Len(rec.items) = 0 THEN "done"
                                               ELSE "read_product",
                                        !.idx = 1,
                                        !.resp = IF Len(rec.items) = 0
                                                 THEN Resp(200, "success") ELSE @,
                                        !.wasReceived =
                                            (purchases[purchaseId].status = "received")]]
                 /\ purchases' = [purchases EXCEPT ![purchaseId].status = "received"]
    /\ UNCHANGED <<products, service_products, inventory_logs, audit_logs,
                   purchase_requisitions,
                   stock_writes,
                   purchase_items, purchase_requisition_items,
                   auth_users, users>>

\* a receipt an admin sends
RecvUpdateStatus(p) == RecvEnter(p, "admin")

\* a receipt sent with any Authorization header or none
RecvUpdateStatusAnyToken(p) == \E token \in Tokens : RecvEnter(p, token)

\* a) select stock, cost of the item's product
RecvReadProduct(p) ==
    /\ h[p].op = "receive" /\ h[p].pc = "read_product"
    /\ LET item == h[p].items[h[p].idx] IN
         IF item.product_id \notin Products
         THEN h' = [h EXCEPT ![p].pc = "done", ![p].resp = Resp(500, "error")]
         ELSE LET previousStock == products[item.product_id].stock
                  unitCost == ReceiveUnitCost(item.cost, products[item.product_id].cost)
              IN h' = [h EXCEPT ![p] =
                         [op |-> "receive", pc |-> "insert_log", rid |-> h[p].rid,
                          purchaseId |-> h[p].purchaseId, body |-> h[p].body, token |-> h[p].token,
                          items |-> h[p].items,
                          idx |-> h[p].idx, wasReceived |-> h[p].wasReceived,
                          resp |-> h[p].resp,
                          previousStock |-> previousStock,
                          newStock |-> ReceiveNewStock(previousStock, item.quantity),
                          unitCost |-> unitCost,
                          totalCostImpact |-> TotalCostImpact(item.quantity, unitCost)]]
    /\ UNCHANGED <<products, service_products, inventory_logs, audit_logs, purchases,
                   purchase_requisitions, stock_writes,
                   purchase_items, purchase_requisition_items,
                   auth_users, users>>

RecvInsertLogOverwrite(p) ==
    /\ h[p].op = "receive" /\ h[p].pc = "insert_log"
    /\ inventory_logs' =
          IF Len(inventory_logs) = 0 THEN inventory_logs
          ELSE [inventory_logs EXCEPT ![Len(inventory_logs)].change =
                                          h[p].items[h[p].idx].quantity + 1]
    /\ h' = [h EXCEPT ![p].pc = "update_stock"]
    /\ UNCHANGED <<products, service_products, audit_logs, purchases,
                   purchase_requisitions, stock_writes,
                   purchase_items, purchase_requisition_items,
                   auth_users, users>>

\* b) insert into inventory_logs; the result is not looked at
RecvInsertLog(p) ==
    /\ h[p].op = "receive" /\ h[p].pc = "insert_log"
    /\ LET item == h[p].items[h[p].idx] IN
         inventory_logs' = Append(inventory_logs,
            [rid |-> h[p].rid, product_id |-> item.product_id,
             change |-> item.quantity, reason |-> "PURCHASE_RECEIVED",
             ref_table |-> Some("purchases"), ref_id |-> Some(h[p].purchaseId),
             previous_stock |-> h[p].previousStock,
             new_stock |-> h[p].newStock,
             unit_cost |-> h[p].unitCost,
             total_cost_impact |-> h[p].totalCostImpact,
             unit_cost_col |-> Null,
             total_cost_col |-> Null])
    /\ h' = [h EXCEPT ![p].pc = "update_stock"]
    /\ UNCHANGED <<products, service_products, audit_logs, purchases,
                   purchase_requisitions,
                   stock_writes,
                   purchase_items, purchase_requisition_items,
                   auth_users, users>>

\* c) update products set stock = newStock; after the last item respond success
RecvUpdateStock(p) ==
    /\ h[p].op = "receive" /\ h[p].pc = "update_stock"
    /\ LET item == h[p].items[h[p].idx] IN
         /\ products' = [products EXCEPT ![item.product_id].stock = h[p].newStock]
         /\ stock_writes' = Append(stock_writes,
                                   [rid |-> h[p].rid, product_id |-> item.product_id,
                                    delta |-> item.quantity])
    /\ h' = [h EXCEPT ![p] =
               [op |-> "receive",
                pc |-> IF h[p].idx = Len(h[p].items) THEN "done" ELSE "read_product",
                rid |-> h[p].rid, purchaseId |-> h[p].purchaseId,
                body |-> h[p].body, token |-> h[p].token, items |-> h[p].items,
                idx |-> IF h[p].idx = Len(h[p].items) THEN h[p].idx ELSE h[p].idx + 1,
                wasReceived |-> h[p].wasReceived,
                resp |-> IF h[p].idx = Len(h[p].items)
                         THEN Resp(200, "success") ELSE h[p].resp]]
    /\ UNCHANGED <<service_products, inventory_logs, audit_logs, purchases,
                   purchase_requisitions,
                   purchase_items, purchase_requisition_items,
                   auth_users, users>>

(* ---------------- inventory-logs service: generic audit log ------------- *)
\* POST /api/log-action: insert into audit_logs the entry the body describes,
\* then respond success
LogAction(p) ==
    /\ CanStart(p)
    /\ \E rowId \in Products :
         /\ audit_logs' = Append(audit_logs,
               [rid |-> p, action |-> "NOTE", table_name |-> "products",
                row_id |-> rowId])
         /\ h' = [h EXCEPT ![p] = [op |-> "log_action", pc |-> "done", rid |-> p,
                                   rowId |-> rowId, resp |-> Resp(200, "success")]]
    /\ UNCHANGED <<products, service_products, inventory_logs, purchases,
                   purchase_items, purchase_requisitions,
                   purchase_requisition_items, stock_writes,
                   auth_users, users>>

(* ------------------ database calls that resolve to an error ------------ *)
\* insert into inventory_logs resolves to {error}: logError is thrown
AdjInsertLogFail(p) ==
    /\ h[p].op = "adjust" /\ h[p].pc = "insert_log"
    /\ h' = [h EXCEPT ![p].pc = "done", ![p].resp = Resp(500, "error")]
    /\ UNCHANGED <<products, service_products, inventory_logs, audit_logs,
                   purchases, purchase_items, purchase_requisitions,
                   purchase_requisition_items, stock_writes,
                   auth_users, users>>

\* rpc update_product_stock resolves to {error}; its result is not looked at
AdjRpcFail(p) ==
    /\ h[p].op = "adjust" /\ h[p].pc = "rpc"
    /\ h' = [h EXCEPT ![p].pc = "audit"]
    /\ UNCHANGED <<products, service_products, inventory_logs, audit_logs,
                   purchases, purchase_items, purchase_requisitions,
                   purchase_requisition_items, stock_writes,
                   auth_users, users>>

AdjAuditFailThrows(p) ==
    /\ h[p].op = "adjust" /\ h[p].pc = "audit"
    /\ h' = [h EXCEPT ![p].pc = "done", ![p].resp = Resp(500, "error")]
    /\ UNCHANGED <<products, service_products, inventory_logs, audit_logs,
                   purchases, purchase_items, purchase_requisitions,
                   purchase_requisition_items, stock_writes,
                   auth_users, users>>

\* insert into audit_logs resolves to {error}; its result is not looked at
AdjAuditFail(p) ==
    /\ h[p].op = "adjust" /\ h[p].pc = "audit"
    /\ h' = [h EXCEPT ![p].pc = "done", ![p].resp = Resp(200, "success")]
    /\ UNCHANGED <<products, service_products, inventory_logs, audit_logs,
                   purchases, purchase_items, purchase_requisitions,
                   purchase_requisition_items, stock_writes,
                   auth_users, users>>

\* b) insert into inventory_logs resolves to {error}; not looked at
RecvInsertLogFail(p) ==
    /\ h[p].op = "receive" /\ h[p].pc = "insert_log"
    /\ h' = [h EXCEPT ![p].pc = "update_stock"]
    /\ UNCHANGED <<products, service_products, inventory_logs, audit_logs,
                   purchases, purchase_items, purchase_requisitions,
                   purchase_requisition_items, stock_writes,
                   auth_users, users>>

\* c) update products resolves to {error}; not looked at, the loop goes on
RecvUpdateStockFail(p) ==
    /\ h[p].op = "receive" /\ h[p].pc = "update_stock"
    /\ h' = [h EXCEPT ![p] =
               [op |-> "receive",
                pc |-> IF h[p].idx = Len(h[p].items) THEN "done" ELSE "read_product",
                rid |-> h[p].rid, purchaseId |-> h[p].purchaseId,
                body |-> h[p].body, token |-> h[p].token, items |-> h[p].items,
                idx |-> IF h[p].idx = Len(h[p].items) THEN h[p].idx ELSE h[p].idx + 1,
                wasReceived |-> h[p].wasReceived,
                resp |-> IF h[p].idx = Len(h[p].items)
                         THEN Resp(200, "success") ELSE h[p].resp]]
    /\ UNCHANGED <<products, service_products, inventory_logs, audit_logs,
                   purchases, purchase_items, purchase_requisitions,
                   purchase_requisition_items, stock_writes,
                   auth_users, users>>

(* -------------------- inventory service: requisitions ----------------- *)
\* a requisition row; decisions counts the status writes of decisions on it,
\* raced records that a decision read it while another was in flight
Requisition(status) ==
    [status |-> status, decisions |-> IF status = "pending" THEN 0 ELSE 1,
     raced |-> FALSE]

\* verifyAdmin: 0 when next() is called, else the status code of the refusal
verifyAdmin(token) ==
    IF token = "none" THEN 401
    ELSE IF token = "invalid" THEN 401
    ELSE IF token # "admin" THEN 403
    ELSE 0

\* action values of the request body; the last one is not recognised
Actions == {"approve", "reject", "cancel"}

\* ["approve", "reject"].includes(action)
IsAction(action) == action \in {"approve", "reject"}

IsPendingNoCheck(status) == TRUE

IsPendingOrApproved(status) == status \in {"pending", "approved"}

\* the handler goes on to the update only when this holds of the status read
IsPending(status) == status = "pending"

\* action === "approve" ? "approved" : "rejected"
DecidedStatus(action) == IF action = "approve" THEN "approved" ELSE "rejected"

\* another decision on requisition id has read the status and not yet written
DecisionInFlight(p, id) ==
    \E q \in Procs : q # p /\ h[q].op = "decide" /\ h[q].pc = "update" /\ h[q].id = id

\* PATCH /api/requisitions/:id: verifyAdmin, the action check and the select;
\* a request the middleware refuses never has its parameters or body read
DecideFetch(p) ==
    /\ CanStart(p)
    /\ \E id \in 1..(Len(purchase_requisitions) + 1), action \in Actions,
          token \in Tokens :
         LET rec == [op |-> "decide", pc |-> "done", rid |-> p, id |-> id,
                     action |-> action, token |-> token, resp |-> Resp(0, "")]
         IN IF verifyAdmin(token) # 0
            THEN /\ h' = [h EXCEPT ![p] = [rec EXCEPT !.id = 0, !.action = "",
                                              !.resp = Resp(verifyAdmin(token), "denied")]]
                 /\ UNCHANGED purchase_requisitions
            ELSE IF ~IsAction(action)
            THEN /\ h' = [h EXCEPT ![p] = [rec EXCEPT !.resp =
                                              Resp(400, "Invalid action")]]
                 /\ UNCHANGED purchase_requisitions
            ELSE IF id > Len(purchase_requisitions)
            THEN /\ h' = [h EXCEPT ![p] = [rec EXCEPT !.resp =
                                              Resp(404, "Requisition not found")]]
                 /\ UNCHANGED purchase_requisitions
            ELSE IF ~IsPending(purchase_requisitions[id].status)
            THEN /\ h' = [h EXCEPT ![p] = [rec EXCEPT !.resp =
                                              Resp(400, "Requisition already processed.")]]
                 /\ UNCHANGED purchase_requisitions
            ELSE /\ h' = [h EXCEPT ![p] = [rec EXCEPT !.pc = "update"]]
                 /\ purchase_requisitions' =
                       [purchase_requisitions EXCEPT ![id].raced =
                           @ \/ DecisionInFlight(p, id)]
    /\ UNCHANGED <<products, service_products, inventory_logs, audit_logs,
                   purchases, stock_writes,
                   purchase_items, purchase_requisition_items,
                   auth_users, users>>

\* update purchase_requisitions set status = .. where id = .., then respond
DecideUpdate(p) ==
    /\ h[p].op = "decide" /\ h[p].pc = "update"
    /\ purchase_requisitions' =
          [purchase_requisitions EXCEPT
              ![h[p].id].status = DecidedStatus(h[p].action),
              ![h[p].id].decisions = @ + 1]
    /\ h' = [h EXCEPT ![p].pc = "done", ![p].resp = Resp(200, "decided")]
    /\ UNCHANGED <<products, service_products, inventory_logs, audit_logs,
                   purchases, stock_writes,
                   purchase_items, purchase_requisition_items,
                   auth_users, users>>

(* ------------- inventory service: purchase from a requisition ---------- *)
\* items of the request body of a purchase: absent, or a list
PurchaseBodies ==
    { Null,
      Some(<< Item(1, 5, Some(3)) >>),
      Some(<< Item(2, 4, Null) >>),
      Some(<< Item(MissingProduct, 5, Null) >>) }

\* outcomes (TRUE: no error) of inserting rows into a table whose product_id
\* references products; an insert is one statement, so all rows or none;
\* whether an empty list of rows is an error is left open
InsertOutcomes(rows) ==
    IF \E i \in DOMAIN rows : rows[i].product_id \notin Products
    THEN {FALSE}
    ELSE IF Len(rows) = 0 THEN BOOLEAN ELSE {TRUE}

IsApprovedNoCheck(status) == TRUE

\* requisition.status !== "approved" sends 400
IsApproved(status) == status = "approved"

\* items.map(i => ({purchase_id, product_id, quantity, cost: i.cost || 0}))
FromReqPurchaseItems(purchase_id, items) ==
    [i \in DOMAIN items |->
        PurchaseItem(purchase_id, items[i].product_id, items[i].quantity,
                     Some(OrZero(items[i].cost)))]

\* POST /api/purchases/from-requisition: verifyAdmin and the select
FromReqFetch(p) ==
    /\ CanStart(p)
    /\ \E requisition_id \in 1..(Len(purchase_requisitions) + 1),
          items \in PurchaseBodies, token \in Tokens :
         LET rec == [op |-> "from_requisition", pc |-> "done", rid |-> p,
                     requisition_id |-> requisition_id, items |-> items,
                     token |-> token, purchase_id |-> 0, resp |-> Resp(0, "")]
         IN IF verifyAdmin(token) # 0
            THEN h' = [h EXCEPT ![p] = [rec EXCEPT !.requisition_id = 0,
                                          !.items = Null,
                                          !.resp = Resp(verifyAdmin(token), "denied")]]
            ELSE IF requisition_id > Len(purchase_requisitions)
            THEN h' = [h EXCEPT ![p] = [rec EXCEPT !.resp =
                                          Resp(404, "Requisition not found")]]
            ELSE IF ~IsApproved(purchase_requisitions[requisition_id].status)
            THEN h' = [h EXCEPT ![p] = [rec EXCEPT !.resp =
                                          Resp(400, "Requisition not approved yet")]]
            ELSE h' = [h EXCEPT ![p] = [rec EXCEPT !.pc = "insert_purchase"]]
    /\ UNCHANGED <<products, service_products, inventory_logs, audit_logs,
                   purchases, purchase_items, purchase_requisitions,
                   purchase_requisition_items, stock_writes,
                   auth_users, users>>

\* 1) insert into purchases; items.map then throws when items is absent
FromReqInsertPurchase(p) ==
    /\ h[p].op = "from_requisition" /\ h[p].pc = "insert_purchase"
    /\ purchases' = Append(purchases, [status |-> "pending"])
    /\ h' = [h EXCEPT ![p].purchase_id = Len(purchases) + 1,
                      ![p].pc = IF h[p].items = Null THEN "done" ELSE "insert_items",
                      ![p].resp = IF h[p].items = Null
                                  THEN Resp(500, "error") ELSE h[p].resp]
    /\ UNCHANGED <<products, service_products, inventory_logs, audit_logs,
                   purchase_items, purchase_requisitions,
                   purchase_requisition_items, stock_writes,
                   auth_users, users>>

\* 2) insert into purchase_items; an error is thrown
FromReqInsertItems(p) ==
    /\ h[p].op = "from_requisition" /\ h[p].pc = "insert_items"
    /\ LET rows == FromReqPurchaseItems(h[p].purchase_id, h[p].items[1]) IN
         \E ok \in InsertOutcomes(rows) :
            IF ok
            THEN /\ purchase_items' = purchase_items \o rows
                 /\ h' = [h EXCEPT ![p].pc = "fulfil"]
            ELSE /\ purchase_items' = purchase_items
                 /\ h' = [h EXCEPT ![p].pc = "done", ![p].resp = Resp(500, "error")]
    /\ UNCHANGED <<products, service_products, inventory_logs, audit_logs,
                   purchases, purchase_requisitions,
                   purchase_requisition_items, stock_writes,
                   auth_users, users>>

\* 3) update purchase_requisitions set status = fulfilled where id = ..; the
\* result is not looked at, the response follows
FromReqFulfil(p) ==
    /\ h[p].op = "from_requisition" /\ h[p].pc = "fulfil"
    /\ purchase_requisitions' =
          [purchase_requisitions EXCEPT ![h[p].requisition_id].status = "fulfilled"]
    /\ h' = [h EXCEPT ![p].pc = "done",
                      ![p].resp = Resp(200, "Purchase order created from requisition")]
    /\ UNCHANGED <<products, service_products, inventory_logs, audit_logs,
                   purchases, purchase_items,
                   purchase_requisition_items, stock_writes,
                   auth_users, users>>

\* 3) the same call when the database does not carry the update out: it
\* resolves to {error}, which the handler does not read
FromReqFulfilFail(p) ==
    /\ h[p].op = "from_requisition" /\ h[p].pc = "fulfil"
    /\ h' = [h EXCEPT ![p].pc = "done",
                      ![p].resp = Resp(200, "Purchase order created from requisition")]
    /\ UNCHANGED <<products, service_products, inventory_logs, audit_logs,
                   purchases, purchase_items, purchase_requisitions,
                   purchase_requisition_items, stock_writes,
                   auth_users, users>>


(* ----------------- inventory service: creating a purchase -------------- *)
\* items.map(i => ({purchase_id, product_id, quantity, cost: i.cost}))
CreatePurchaseItems(purchase_id, items) ==
    [i \in DOMAIN items |->
        PurchaseItem(purchase_id, items[i].product_id, items[i].quantity,
                     items[i].cost)]

\* POST /api/purchases: verifyAdmin, then 1) insert into purchases; items.map
\* then throws when items is absent
CreatePurchaseInsert(p) ==
    /\ CanStart(p)
    /\ \E items \in PurchaseBodies, token \in Tokens :
         LET rec == [op |-> "create_purchase", pc |-> "done", rid |-> p,
                     items |-> items, token |-> token, purchase_id |-> 0,
                     resp |-> Resp(0, "")]
         IN IF verifyAdmin(token) # 0
            THEN /\ h' = [h EXCEPT ![p] = [rec EXCEPT !.items = Null,
                                             !.resp = Resp(verifyAdmin(token), "denied")]]
                 /\ purchases' = purchases
            ELSE /\ purchases' = Append(purchases, [status |-> "pending"])
                 /\ h' = [h EXCEPT ![p] =
                            [rec EXCEPT !.purchase_id = Len(purchases) + 1,
                                        !.pc = IF items = Null THEN "done"
                                               ELSE "insert_items",
                                        !.resp = IF items = Null
                                                 THEN Resp(500, "error") ELSE @]]
    /\ UNCHANGED <<products, service_products, inventory_logs, audit_logs,
                   purchase_items, purchase_requisitions,
                   purchase_requisition_items, stock_writes,
                   auth_users, users>>

\* 2) insert into purchase_items; an error is thrown
CreatePurchaseInsertItems(p) ==
    /\ h[p].op = "create_purchase" /\ h[p].pc = "insert_items"
    /\ LET rows == CreatePurchaseItems(h[p].purchase_id, h[p].items[1]) IN
         \E ok \in InsertOutcomes(rows) :
            IF ok
            THEN /\ purchase_items' = purchase_items \o rows
                 /\ h' = [h EXCEPT ![p].pc = "done",
                                   ![p].resp = Resp(200, "Purchase order created")]
            ELSE /\ purchase_items' = purchase_items
                 /\ h' = [h EXCEPT ![p].pc = "done", ![p].resp = Resp(500, "error")]
    /\ UNCHANGED <<products, service_products, inventory_logs, audit_logs,
                   purchases, purchase_requisitions,
                   purchase_requisition_items, stock_writes,
                   auth_users, users>>

(* ----------------- inventory service: products and advice -------------- *)
\* stock values of the body of a product update: absent, or a number
StockValues == { Null, Some(4), Some(7) }

\* PUT /api/products/:product_id: update products set the fields of the body
\* where product_id = ..; a field the body does not carry is not sent and
\* stays as it is; no row is an error of .single()
UpdateProduct(p) ==
    /\ CanStart(p)
    /\ \E product_id \in Products \cup {MissingProduct}, stock \in StockValues :
         LET rec == [op |-> "update_product", pc |-> "done", rid |-> p,
                     product_id |-> product_id, stock |-> stock,
                     resp |-> Resp(200, "updated")]
         IN IF product_id \notin Products
            THEN /\ h' = [h EXCEPT ![p] = [rec EXCEPT !.resp = Resp(400, "error")]]
                 /\ UNCHANGED <<products, stock_writes>>
            ELSE /\ h' = [h EXCEPT ![p] = rec]
                 /\ products' = [products EXCEPT ![product_id].stock =
                                    IF stock = Null THEN @ ELSE stock[1]]
                 /\ stock_writes' =
                       IF stock = Null THEN stock_writes
                       ELSE Append(stock_writes,
                                   [rid |-> p, product_id |-> product_id,
                                    delta |-> stock[1] - products[product_id].stock])
    /\ UNCHANGED <<service_products, inventory_logs, audit_logs, purchases,
                   purchase_items, purchase_requisitions,
                   purchase_requisition_items,
                   auth_users, users>>

\* supabase.raw("reorder_level"): the client object made by createClient has
\* no member raw, so evaluating the filter's argument throws a TypeError
\* before any query is sent
RawThrows == TRUE

\* the rows of select .. from products .lte("stock", supabase.raw(
\* "reorder_level")): the product ids, or nothing when the expression throws
LowStockRows(prods) ==
    IF RawThrows THEN Null
    ELSE Some({prod \in DOMAIN prods : prods[prod].stock <= prods[prod].reorder_level})

\* Math.max(p.reorder_level - p.stock, 0)
SuggestedOrderQty(reorder_level, stock) ==
    IF reorder_level - stock > 0 THEN reorder_level - stock ELSE 0

\* GET /api/products/low-stock: verifyAdmin, the select, the response
LowStock(p) ==
    /\ CanStart(p)
    /\ \E token \in Tokens :
         LET rec == [op |-> "low_stock", pc |-> "done", rid |-> p, token |-> token,
                     data |-> Null, resp |-> Resp(0, "")]
             rows == LowStockRows(products)
         IN h' = [h EXCEPT ![p] =
                    IF verifyAdmin(token) # 0
                    THEN [rec EXCEPT !.resp = Resp(verifyAdmin(token), "denied")]
                    ELSE IF rows = Null
                    THEN [rec EXCEPT !.resp = Resp(500, "error")]
                    ELSE [rec EXCEPT !.data = rows,
                                     !.resp = Resp(200, "Low stock products retrieved")]]
    /\ UNCHANGED <<products, service_products, inventory_logs, audit_logs,
                   purchases, purchase_items, purchase_requisitions,
                   purchase_requisition_items, stock_writes,
                   auth_users, users>>

\* GET /api/products/low-stock/suggestions: verifyAdmin, the select, the map
\* to suggestions, the response
Suggestions(p) ==
    /\ CanStart(p)
    /\ \E token \in Tokens :
         LET rec == [op |-> "suggestions", pc |-> "done", rid |-> p, token |-> token,
                     data |-> Null, resp |-> Resp(0, "")]
             rows == LowStockRows(products)
         IN h' = [h EXCEPT ![p] =
                    IF verifyAdmin(token) # 0
                    THEN [rec EXCEPT !.resp = Resp(verifyAdmin(token), "denied")]
                    ELSE IF rows = Null
                    THEN [rec EXCEPT !.resp = Resp(500, "error")]
                    ELSE [rec EXCEPT
                            !.data = Some({ [product_id |-> prod,
                                             suggested_order_qty |->
                                                SuggestedOrderQty(
                                                    products[prod].reorder_level,
                                                    products[prod].stock)]
                                            : prod \in rows[1] }),
                            !.resp = Resp(200, "Purchase suggestions generated")]]
    /\ UNCHANGED <<products, service_products, inventory_logs, audit_logs,
                   purchases, purchase_items, purchase_requisitions,
                   purchase_requisition_items, stock_writes,
                   auth_users, users>>

(* -------------- inventory service: creating a requisition -------------- *)
\* verifyUser: 0 when next() is called, else the status code of the refusal
verifyUser(token) ==
    IF token = "none" THEN 401
    ELSE IF token = "invalid" THEN 401
    ELSE IF token \notin {"user", "employee"} THEN 403
    ELSE 0

\* an item {product_id, quantity} of a requisition request
ReqItem(product_id, quantity) == [product_id |-> product_id, quantity |-> quantity]

\* items of the request body of a requisition: absent, or a list
RequisitionBodies ==
    { Null,
      Some(<<>>),
      Some(<< ReqItem(1, 5), ReqItem(2, 3) >>),
      Some(<< ReqItem(1, 0) >>),
      Some(<< ReqItem(1, 5), ReqItem(MissingProduct, 5) >>) }

\* a row of purchase_requisition_items
RequisitionItem(requisition_id, product_id, quantity) ==
    [requisition_id |-> requisition_id, product_id |-> product_id,
     quantity |-> quantity]

\* items.map(i => ({requisition_id, product_id, quantity}))
CreateReqItems(requisition_id, items) ==
    [i \in DOMAIN items |->
        RequisitionItem(requisition_id, items[i].product_id, items[i].quantity)]

\* POST /api/requisitions: verifyUser, then 1) insert into
\* purchase_requisitions {requested_by, reason}, the status being the
\* column's default; items.map then throws when items is absent
CreateReqInsert(p) ==
    /\ CanStart(p)
    /\ \E items \in RequisitionBodies, token \in Tokens :
         LET rec == [op |-> "create_requisition", pc |-> "done", rid |-> p,
                     items |-> items, token |-> token, requisition_id |-> 0,
                     resp |-> Resp(0, "")]
         IN IF verifyUser(token) # 0
            THEN /\ h' = [h EXCEPT ![p] = [rec EXCEPT !.items = Null,
                                             !.resp = Resp(verifyUser(token), "denied")]]
                 /\ purchase_requisitions' = purchase_requisitions
            ELSE /\ purchase_requisitions' =
                       Append(purchase_requisitions, Requisition("pending"))
                 /\ h' = [h EXCEPT ![p] =
                            [rec EXCEPT !.requisition_id = Len(purchase_requisitions) + 1,
                                        !.pc = IF items = Null THEN "done"
                                               ELSE "insert_items",
                                        !.resp = IF items = Null
                                                 THEN Resp(500, "error") ELSE @]]
    /\ UNCHANGED <<products, service_products, inventory_logs, audit_logs,
                   purchases, purchase_items,
                   purchase_requisition_items, stock_writes,
                   auth_users, users>>

\* 2) insert into purchase_requisition_items; an error is thrown
CreateReqInsertItems(p) ==
    /\ h[p].op = "create_requisition" /\ h[p].pc = "insert_items"
    /\ LET rows == CreateReqItems(h[p].requisition_id, h[p].items[1]) IN
         \E ok \in InsertOutcomes(rows) :
            IF ok
            THEN /\ purchase_requisition_items' = purchase_requisition_items \o rows
                 /\ h' = [h EXCEPT ![p].pc = "done",
                                   ![p].resp = Resp(200, "Requisition created")]
            ELSE /\ purchase_requisition_items' = purchase_requisition_items
                 /\ h' = [h EXCEPT ![p].pc = "done", ![p].resp = Resp(500, "error")]
    /\ UNCHANGED <<products, service_products, inventory_logs, audit_logs,
                   purchases, purchase_items, purchase_requisitions, stock_writes,
                   auth_users, users>>

(* ----------------------------- users service -------------------------- *)
\* email addresses and passwords requests are made with
Emails == {"a@x", "b@x"}
Passwords == {"pw", "bad"}

\* the ids of the rows of roles
RoleIds == {1, 2, 3}

\* select name from roles where id = ..: the names the middlewares compare
\* decoded.role with
RoleName(role_id) ==
    IF role_id = 1 THEN "admin" ELSE IF role_id = 2 THEN "user" ELSE "employee"

\* the positions of the accounts of the authentication service with the
\* given email
AccountsOf(email) == {i \in DOMAIN auth_users : auth_users[i].email = email}

\* the positions of the rows of users with the given auth_uid
UsersOf(auth_uid) == {i \in DOMAIN users : users[i].auth_uid = auth_uid}

\* POST /signup: auth.signUp({email, password}); role_id is read from the body
SignupAuth(p) ==
    /\ CanStart(p)
    /\ \E email \in Emails, password \in Passwords, role_id \in RoleIds :
         LET rec == [op |-> "signup", pc |-> "done", rid |-> p, email |-> email,
                     password |-> password, role_id |-> role_id, auth_uid |-> 0, resp |-> Resp(0, "")]
         IN IF AccountsOf(email) # {}
            THEN /\ h' = [h EXCEPT ![p] = [rec EXCEPT !.resp = Resp(400, "error")]]
                 /\ auth_users' = auth_users
            ELSE /\ auth_users' = Append(auth_users,
                                         [email |-> email, password |-> password])
                 /\ h' = [h EXCEPT ![p] = [rec EXCEPT !.pc = "insert",
                                                      !.auth_uid = Len(auth_users) + 1]]
    /\ UNCHANGED <<products, service_products, inventory_logs, audit_logs,
                   purchases, purchase_items, purchase_requisitions,
                   purchase_requisition_items, users, stock_writes>>

\* the role_id of the users row a signup inserts: that of the request body
SignupRoleId(role_id) == role_id

\* insert into users {auth_uid, email, full_name, role_id, active: true}
SignupInsert(p) ==
    /\ h[p].op = "signup" /\ h[p].pc = "insert"
    /\ users' = Append(users, [auth_uid |-> h[p].auth_uid, email |-> h[p].email,
                               role_id |-> SignupRoleId(h[p].role_id),
                               active |-> TRUE])
    /\ h' = [h EXCEPT ![p].pc = "done", ![p].resp = Resp(200, "Signup successful")]
    /\ UNCHANGED <<products, service_products, inventory_logs, audit_logs,
                   purchases, purchase_items, purchase_requisitions,
                   purchase_requisition_items, auth_users, stock_writes>>

\* POST /login: auth.signInWithPassword({email, password})
LoginAuth(p) ==
    /\ CanStart(p)
    /\ \E email \in Emails, password \in Passwords :
         LET rec == [op |-> "login", pc |-> "done", rid |-> p, email |-> email,
                     password |-> password, auth_uid |-> 0, user_id |-> 0,
                     token |-> Null, resp |-> Resp(0, "")]
             found == {i \in AccountsOf(email) : auth_users[i].password = password}
         IN IF found = {}
            THEN h' = [h EXCEPT ![p] = [rec EXCEPT !.resp = Resp(400, "error")]]
            ELSE h' = [h EXCEPT ![p] = [rec EXCEPT !.pc = "user",
                                                   !.auth_uid = CHOOSE i \in found : TRUE]]
    /\ UNCHANGED <<products, service_products, inventory_logs, audit_logs,
                   purchases, purchase_items, purchase_requisitions,
                   purchase_requisition_items, auth_users, users, stock_writes>>

\* !userData.active sends 403
IsActive(active) == active

\* select id, full_name, role_id, active from users where auth_uid = ..
LoginUser(p) ==
    /\ h[p].op = "login" /\ h[p].pc = "user"
    /\ IF UsersOf(h[p].auth_uid) = {}
       THEN h' = [h EXCEPT ![p].pc = "done",
                           ![p].resp = Resp(400, "User record not found")]
       ELSE LET id == CHOOSE i \in UsersOf(h[p].auth_uid) : TRUE IN
            IF ~IsActive(users[id].active)
            THEN h' = [h EXCEPT ![p].pc = "done",
                                ![p].resp = Resp(403, "Account is inactive")]
            ELSE h' = [h EXCEPT ![p].pc = "role", ![p].user_id = id]
    /\ UNCHANGED <<products, service_products, inventory_logs, audit_logs,
                   purchases, purchase_items, purchase_requisitions,
                   purchase_requisition_items, auth_users, users, stock_writes>>

\* select name from roles where id = userData.role_id, then jwt.sign({user_id,
\* role}) and the response
LoginRole(p) ==
    /\ h[p].op = "login" /\ h[p].pc = "role"
    /\ h' = [h EXCEPT ![p].pc = "done",
                      ![p].token = Some([user_id |-> h[p].user_id,
                                         role |-> RoleName(users[h[p].user_id].role_id)]),
                      ![p].resp = Resp(200, "Login successful")]
    /\ UNCHANGED <<products, service_products, inventory_logs, audit_logs,
                   purchases, purchase_items, purchase_requisitions,
                   purchase_requisition_items, auth_users, users, stock_writes>>

(* ------------------------------- Init --------------------------------- *)
\* the stock product prod starts with
InitStock(prod) == InitProducts[prod].stock

Init ==
    /\ products = InitProducts
    /\ service_products = << ServiceProduct(1, 1, 6) >>
    /\ inventory_logs = <<>>
    /\ audit_logs = <<>>
    /\ purchases = << [status |-> "pending"] >>
    /\ purchase_items = << PurchaseItem(1, 1, 5, Some(3)) >>
    /\ purchase_requisition_items = <<>>
    /\ purchase_requisitions = <<>>
    /\ auth_users = <<>>
    /\ users = <<>>
    /\ h = [p \in Procs |-> Idle]
    /\ stock_writes = <<>>

Next ==
    \E p \in Procs :
        \/ AdjFetch(p)
        \/ AdjInsertLog(p)
        \/ AdjRpc(p)
        \/ AdjAudit(p)
        \/ ApplyFetch(p)
        \/ ApplyUpdate(p)
        \/ RecvUpdateStatus(p)
        \/ RecvReadProduct(p)
        \/ RecvInsertLog(p)
        \/ RecvUpdateStock(p)

Spec == Init /\ [][Next]_vars

\* manual adjustments and purchase receipts whose database calls can fail
NextFault ==
    \E p \in Procs :
        \/ AdjFetch(p)
        \/ AdjInsertLog(p)
        \/ AdjInsertLogFail(p)
        \/ AdjRpc(p)
        \/ AdjRpcFail(p)
        \/ AdjAudit(p)
        \/ AdjAuditFail(p)
        \/ RecvUpdateStatus(p)
        \/ RecvReadProduct(p)
        \/ RecvInsertLog(p)
        \/ RecvInsertLogFail(p)
        \/ RecvUpdateStock(p)
        \/ RecvUpdateStockFail(p)

SpecFault == Init /\ [][NextFault]_vars

\* manual adjustments whose audit log insert can fail
NextAudit ==
    \E p \in Procs :
        \/ AdjFetch(p)
        \/ AdjInsertLog(p)
        \/ AdjRpc(p)
        \/ AdjAudit(p)
        \/ AdjAuditFail(p)

SpecAudit == Init /\ [][NextAudit]_vars

\* the handlers that write to inventory_logs or audit_logs
NextLogs ==
    \E p \in Procs :
        \/ AdjFetch(p)
        \/ AdjInsertLog(p)
        \/ AdjRpc(p)
        \/ AdjAudit(p)
        \/ RecvUpdateStatus(p)
        \/ RecvReadProduct(p)
        \/ RecvInsertLog(p)
        \/ RecvUpdateStock(p)
        \/ LogAction(p)

SpecLogs == Init /\ [][NextLogs]_vars

\* every path that writes stock, and the low-stock reads
NextProducts ==
    \E p \in Procs :
        \/ AdjFetch(p)
        \/ AdjInsertLog(p)
        \/ AdjRpc(p)
        \/ AdjAudit(p)
        \/ ApplyFetch(p)
        \/ ApplyUpdate(p)
        \/ RecvUpdateStatus(p)
        \/ RecvReadProduct(p)
        \/ RecvInsertLog(p)
        \/ RecvUpdateStock(p)
        \/ UpdateProduct(p)
        \/ LowStock(p)
        \/ Suggestions(p)

SpecProducts == Init /\ [][NextProducts]_vars

\* services being applied: service 1 uses one product, service 2 two
\* products, the second of them beyond its stock, service 3 lists the same
\* product in two rows
InitApply ==
    /\ products = InitProducts
    /\ service_products = << ServiceProduct(1, 1, 6),
                             ServiceProduct(2, 1, 6), ServiceProduct(2, 2, 12),
                             ServiceProduct(3, 2, 4), ServiceProduct(3, 2, 4) >>
    /\ inventory_logs = <<>>
    /\ audit_logs = <<>>
    /\ purchases = << [status |-> "pending"] >>
    /\ purchase_items = << PurchaseItem(1, 1, 5, Some(3)) >>
    /\ purchase_requisitions = <<>>
    /\ purchase_requisition_items = <<>>
    /\ auth_users = <<>>
    /\ users = <<>>
    /\ h = [p \in Procs |-> Idle]
    /\ stock_writes = <<>>

NextApply ==
    \E p \in Procs :
        \/ ApplyFetch(p)
        \/ ApplyUpdate(p)

SpecApply == InitApply /\ [][NextApply]_vars

\* the requisition workflow on a pending requisition and one already processed
InitReq ==
    /\ products = InitProducts
    /\ service_products = << ServiceProduct(1, 1, 6) >>
    /\ inventory_logs = <<>>
    /\ audit_logs = <<>>
    /\ purchases = << [status |-> "pending"] >>
    /\ purchase_items = << PurchaseItem(1, 1, 5, Some(3)) >>
    /\ purchase_requisition_items =
          << RequisitionItem(1, 1, 5), RequisitionItem(2, 1, 5) >>
    /\ \E st \in {"approved", "rejected", "fulfilled"} :
          purchase_requisitions = << Requisition("pending"), Requisition(st) >>
    /\ auth_users = <<>>
    /\ users = <<>>
    /\ h = [p \in Procs |-> Idle]
    /\ stock_writes = <<>>

NextReq ==
    \E p \in Procs :
        \/ DecideFetch(p)
        \/ DecideUpdate(p)
        \/ FromReqFetch(p)
        \/ FromReqInsertPurchase(p)
        \/ FromReqInsertItems(p)
        \/ FromReqFulfil(p)
        \/ FromReqFulfilFail(p)

SpecReq == InitReq /\ [][NextReq]_vars

\* the four operations meant for admins, sent with any Authorization header
NextAdmin ==
    \E p \in Procs :
        \/ DecideFetch(p)
        \/ DecideUpdate(p)
        \/ FromReqFetch(p)
        \/ FromReqInsertPurchase(p)
        \/ FromReqInsertItems(p)
        \/ FromReqFulfil(p)
        \/ CreatePurchaseInsert(p)
        \/ CreatePurchaseInsertItems(p)
        \/ RecvUpdateStatusAnyToken(p)
        \/ RecvReadProduct(p)
        \/ RecvInsertLog(p)
        \/ RecvUpdateStock(p)

SpecAdmin == InitReq /\ [][NextAdmin]_vars

\* the users service with one self-registered user that has been deactivated
\* and no user an admin created
InitUsers ==
    /\ products = InitProducts
    /\ service_products = << ServiceProduct(1, 1, 6) >>
    /\ inventory_logs = <<>>
    /\ audit_logs = <<>>
    /\ purchases = << [status |-> "pending"] >>
    /\ purchase_items = << PurchaseItem(1, 1, 5, Some(3)) >>
    /\ purchase_requisitions = <<>>
    /\ purchase_requisition_items = <<>>
    /\ auth_users = << [email |-> "a@x", password |-> "pw"] >>
    /\ users = << [auth_uid |-> 1, email |-> "a@x", role_id |-> 2, active |-> FALSE] >>
    /\ h = [p \in Procs |-> Idle]
    /\ stock_writes = <<>>

\* the requests that need no token
NextUsers ==
    \E p \in Procs :
        \/ SignupAuth(p)
        \/ SignupInsert(p)
        \/ LoginAuth(p)
        \/ LoginUser(p)
        \/ LoginRole(p)

SpecUsers == InitUsers /\ [][NextUsers]_vars

\* requisitions being created, none existing at the start
InitCreate ==
    /\ products = InitProducts
    /\ service_products = << ServiceProduct(1, 1, 6) >>
    /\ inventory_logs = <<>>
    /\ audit_logs = <<>>
    /\ purchases = << [status |-> "pending"] >>
    /\ purchase_items = << PurchaseItem(1, 1, 5, Some(3)) >>
    /\ purchase_requisitions = <<>>
    /\ purchase_requisition_items = <<>>
    /\ auth_users = <<>>
    /\ users = <<>>
    /\ h = [p \in Procs |-> Idle]
    /\ stock_writes = <<>>

NextCreate ==
    \E p \in Procs :
        \/ CreateReqInsert(p)
        \/ CreateReqInsertItems(p)

SpecCreate == InitCreate /\ [][NextCreate]_vars

(* ======================= properties of the ledger ===================== *)
RECURSIVE SumDeltas(_, _, _)
\* sum of the deltas of the stock writes i.. of ws on product prod
SumDeltas(ws, i, prod) ==
    IF i > Len(ws) THEN 0
    ELSE (IF ws[i].product_id = prod THEN ws[i].delta ELSE 0) + SumDeltas(ws, i + 1, prod)

\* stock writes of request rid on product prod with delta d
CountWrites(rid, prod, d) ==
    Cardinality({i \in DOMAIN stock_writes :
                    /\ stock_writes[i].rid = rid
                    /\ stock_writes[i].product_id = prod
                    /\ stock_writes[i].delta = d})

\* inventory log entries of request rid on product prod with change d
CountLogs(rid, prod, d) ==
    Cardinality({i \in DOMAIN inventory_logs :
                    /\ inventory_logs[i].rid = rid
                    /\ inventory_logs[i].product_id = prod
                    /\ inventory_logs[i].change = d})

\* C1: in every reachable state every product's stock is >= 0
C1_StockNeverNegative ==
    \A prod \in Products : products[prod].stock >= 0

\* request slot p holds a finished service application that read stock 10 of
\* a product it deducts 6 from
Deduct6From10(p) ==
    /\ h[p].op = "apply" /\ h[p].pc = "done"
    /\ Len(h[p].sps) = 1
    /\ h[p].sps[1].stock = 10 /\ h[p].sps[1].quantity = 6

\* C2: of two concurrent deductions of 6 from a product with stock 10 exactly
\* one succeeds, the other fails, and the stock never becomes negative
C2_ExactlyOneDeductionSucceeds ==
    \A p, q \in Procs :
        (p # q /\ Deduct6From10(p) /\ Deduct6From10(q)
              /\ h[p].sps[1].product_id = h[q].sps[1].product_id)
        => /\ (h[p].resp.code = 200) # (h[q].resp.code = 200)
           /\ products[h[p].sps[1].product_id].stock >= 0

\* the stock writes on product prod come from different requests
WritesOfDistinctRequests(prod) ==
    \A i, j \in DOMAIN stock_writes :
        (i # j /\ stock_writes[i].product_id = prod /\ stock_writes[j].product_id = prod)
        => stock_writes[i].rid # stock_writes[j].rid

\* C3: the stock of every product is its initial stock plus the sum of the
\* deltas of the stock mutations that requests applied to it, whatever the
\* interleaving: no mutation's effect is lost to another request's mutation
C3_NoLostUpdate ==
    \A prod \in Products :
        WritesOfDistinctRequests(prod) =>
            products[prod].stock = InitStock(prod) + SumDeltas(stock_writes, 1, prod)

\* C4: a manual adjustment whose negative change exceeds the stock it read is
\* answered with an error and writes neither an inventory log entry nor an
\* audit log entry nor the stock
C4_InsufficientStockRejected ==
    \A p \in Procs :
        (h[p].op = "adjust" /\ h[p].product_id \in Products
            /\ h[p].previousStock + h[p].change < 0)
        => /\ \A i \in DOMAIN inventory_logs : inventory_logs[i].rid # h[p].rid
           /\ \A i \in DOMAIN audit_logs : audit_logs[i].rid # h[p].rid
           /\ \A i \in DOMAIN stock_writes : stock_writes[i].rid # h[p].rid
           /\ (h[p].pc = "done" => h[p].resp.code # 200)

\* C5: once the requests have returned, every stock write has exactly one
\* inventory log entry of its request, product and delta
C5_OneLogEntryPerStockWrite ==
    Quiescent =>
        \A i \in DOMAIN stock_writes :
            LET w == stock_writes[i] IN
            CountLogs(w.rid, w.product_id, w.delta)
                = CountWrites(w.rid, w.product_id, w.delta)

\* C6: every inventory log entry has new_stock = previous_stock + change and
\* total_cost_impact = change * unit_cost
C6_LogEntryArithmetic ==
    \A i \in DOMAIN inventory_logs :
        LET e == inventory_logs[i] IN
        /\ e.new_stock = e.previous_stock + e.change
        /\ e.total_cost_impact = e.change * e.unit_cost

\* a manual entry with a negative change at a non-zero unit cost and a receipt
\* entry at the item's cost are both in the log
C6_Witness ==
    /\ \E i \in DOMAIN inventory_logs :
          /\ inventory_logs[i].reason = "MANUAL"
          /\ inventory_logs[i].change < 0
          /\ inventory_logs[i].unit_cost > 0
    /\ \E i \in DOMAIN inventory_logs :
          /\ inventory_logs[i].reason = "PURCHASE_RECEIVED"
          /\ inventory_logs[i].unit_cost = 3
          /\ inventory_logs[i].change = 5

\* C7: a receipt called on a purchase that is already received changes no
\* product's stock and appends no inventory log entry
C7_ReceiveAppliedAtMostOnce ==
    [][\A p \in Procs :
          (h[p].op = "receive" /\ h[p].wasReceived /\ h[p].pc # "done"
              /\ h'[p] # h[p])
          => (products' = products /\ inventory_logs' = inventory_logs)]_vars

\* C8: after a receipt that failed on one of its items, the purchase it was
\* called on (not received before) does not have status received
C8_NoReceivedOnPartialFailure ==
    \A p \in Procs :
        (h[p].op = "receive" /\ h[p].pc = "done" /\ h[p].resp.code = 500
            /\ h[p].purchaseId \in DOMAIN purchases /\ ~h[p].wasReceived
            /\ \A q \in Procs : (q # p /\ h[q].op = "receive") =>
                                    h[q].purchaseId # h[p].purchaseId)
        => purchases[h[p].purchaseId].status # "received"

(* ================= properties of the requisition workflow ============== *)
\* C9: a decision on a requisition that is not pending is answered 400
\* (already processed) and an unrecognised action is answered 400 (invalid
\* action); in both cases the request ends there and no requisition changes
C9_DecideRejectsNonPending ==
    [][\A p \in Procs :
          (h[p].pc = "idle" /\ h'[p] # h[p]
              /\ h'[p].op = "decide" /\ verifyAdmin(h'[p].token) = 0)
          => /\ ~(h'[p].action \in {"approve", "reject"})
                  => /\ h'[p].pc = "done"
                     /\ h'[p].resp = Resp(400, "Invalid action")
                     /\ purchase_requisitions' = purchase_requisitions
             /\ (/\ h'[p].action \in {"approve", "reject"}
                 /\ h'[p].id \in DOMAIN purchase_requisitions
                 /\ purchase_requisitions[h'[p].id].status
                        \in {"approved", "rejected", "fulfilled"})
                  => /\ h'[p].pc = "done"
                     /\ h'[p].resp = Resp(400, "Requisition already processed.")
                     /\ purchase_requisitions' = purchase_requisitions]_vars

\* an approve and a reject were both refused on a processed requisition, and
\* an unrecognised action was refused
C9_Witness ==
    \E p, q \in Procs :
        /\ p # q
        /\ h[p].op = "decide" /\ h[p].pc = "done"
        /\ h[p].resp = Resp(400, "Requisition already processed.")
        /\ h[p].action = "reject"
        /\ h[q].op = "decide" /\ h[q].pc = "done"
        /\ h[q].resp = Resp(400, "Invalid action")

AllowedTransition(from, to) ==
    <<from, to>> \in { <<"pending", "approved">>, <<"pending", "rejected">>,
                       <<"approved", "fulfilled">> }

\* C11: in every step, whatever the interleaving of decisions and purchase
\* creations, a requisition whose status changes goes pending -> approved,
\* pending -> rejected or approved -> fulfilled; rejected and fulfilled are
\* never left
C11_StatusTransitions ==
    [][\A id \in DOMAIN purchase_requisitions :
          purchase_requisitions'[id].status # purchase_requisitions[id].status
          => AllowedTransition(purchase_requisitions[id].status,
                               purchase_requisitions'[id].status)]_vars

\* C12: a purchase creation for a requisition that does not exist is answered
\* 404 (not found), one for a requisition that is not approved is answered 400;
\* the request ends there, no purchase and no purchase item is created and no
\* requisition changes
C12_FromReqRejects ==
    [][\A p \in Procs :
          (h[p].pc = "idle" /\ h'[p] # h[p]
              /\ h'[p].op = "from_requisition" /\ verifyAdmin(h'[p].token) = 0)
          => /\ h'[p].requisition_id \notin DOMAIN purchase_requisitions
                  => /\ h'[p].pc = "done"
                     /\ h'[p].resp = Resp(404, "Requisition not found")
                     /\ purchases' = purchases
                     /\ purchase_items' = purchase_items
                     /\ purchase_requisitions' = purchase_requisitions
             /\ (/\ h'[p].requisition_id \in DOMAIN purchase_requisitions
                 /\ purchase_requisitions[h'[p].requisition_id].status
                        \in {"pending", "rejected", "fulfilled"})
                  => /\ h'[p].pc = "done"
                     /\ h'[p].resp = Resp(400, "Requisition not approved yet")
                     /\ purchases' = purchases
                     /\ purchase_items' = purchase_items
                     /\ purchase_requisitions' = purchase_requisitions]_vars

\* a purchase creation was refused for a missing requisition and another for
\* a requisition that is not approved
C12_Witness ==
    \E p, q \in Procs :
        /\ h[p].op = "from_requisition" /\ h[p].pc = "done"
        /\ h[p].resp = Resp(404, "Requisition not found")
        /\ h[q].op = "from_requisition" /\ h[q].pc = "done"
        /\ h[q].resp = Resp(400, "Requisition not approved yet")
        /\ purchase_requisitions[h[q].requisition_id].status # "approved"

\* C13: at the step in which a purchase creation from a requisition answers
\* success, its purchase exists with status pending, the items supplied are
\* stored for it and the requisition is fulfilled
C13_SuccessImpliesFulfilled ==
    [][\A p \in Procs :
          (h[p].pc # "done" /\ h'[p].pc = "done"
              /\ h'[p].op = "from_requisition" /\ h'[p].resp.code = 200)
          => /\ h'[p].purchase_id \in DOMAIN purchases'
             /\ purchases'[h'[p].purchase_id].status = "pending"
             /\ \A i \in DOMAIN h'[p].items[1] :
                   \E j \in DOMAIN purchase_items' :
                      /\ purchase_items'[j].purchase_id = h'[p].purchase_id
                      /\ purchase_items'[j].product_id = h'[p].items[1][i].product_id
                      /\ purchase_items'[j].quantity = h'[p].items[1][i].quantity
             /\ purchase_requisitions'[h'[p].requisition_id].status = "fulfilled"]_vars

(* ================= properties of creating a requisition ================ *)
\* the items of a requisition request are a non-empty list in which every
\* item names an existing product and a quantity > 0
ValidItems(items) ==
    /\ items # Null
    /\ Len(items[1]) > 0
    /\ \A i \in DOMAIN items[1] :
          items[1][i].product_id \in Products /\ items[1][i].quantity > 0

\* the rows of purchase_requisition_items of requisition id
ItemsOfRequisition(id) ==
    SelectSeq(purchase_requisition_items, LAMBDA r : r.requisition_id = id)

\* C14: a requisition request that has been answered was accepted exactly
\* when its items are valid; an accepted one has its requisition with status
\* pending, a rejected one created no requisition and no requisition item
C14_CreateValidates ==
    \A p \in Procs :
        (h[p].op = "create_requisition" /\ h[p].pc = "done"
            /\ verifyUser(h[p].token) = 0)
        => IF ValidItems(h[p].items)
           THEN /\ h[p].resp.code = 200
                /\ h[p].requisition_id \in DOMAIN purchase_requisitions
                /\ purchase_requisitions[h[p].requisition_id].status = "pending"
           ELSE /\ h[p].resp.code # 200
                /\ h[p].requisition_id = 0

\* C15: once a requisition request has been answered, with success or with
\* an error, the requisition row it created has its items
C15_RequisitionHasItems ==
    \A p \in Procs :
        (h[p].op = "create_requisition" /\ h[p].pc = "done"
            /\ h[p].requisition_id # 0)
        => Len(ItemsOfRequisition(h[p].requisition_id)) > 0

(* ==================== properties of purchase receipts ================== *)
\* C16: a receipt whose items are absent or an empty list is answered 400
\* (no items provided) in the step in which it is made; the purchases, the
\* stock of every product and the inventory log are as before
C16_EmptyItemsRejected ==
    [][\A p \in Procs :
          (h[p].pc = "idle" /\ h'[p] # h[p] /\ h'[p].op = "receive"
              /\ (h'[p].body = Null \/ h'[p].body = Some(<<>>)))
          => /\ h'[p].pc = "done"
             /\ h'[p].resp = Resp(400, "No items provided")
             /\ purchases' = purchases
             /\ products' = products
             /\ inventory_logs' = inventory_logs]_vars

\* a receipt without items and a receipt with an empty list of items were
\* both refused, for a purchase that exists
C16_Witness ==
    \E p, q \in Procs :
        /\ h[p].op = "receive" /\ h[p].pc = "done" /\ h[p].body = Null
        /\ h[p].purchaseId \in DOMAIN purchases
        /\ h[p].resp = Resp(400, "No items provided")
        /\ h[q].op = "receive" /\ h[q].pc = "done" /\ h[q].body = Some(<<>>)
        /\ h[q].purchaseId \in DOMAIN purchases
        /\ h[q].resp = Resp(400, "No items provided")

\* entries of the inventory log that request rid wrote for a purchase receipt
ReceiptLogs(rid, purchaseId) ==
    SelectSeq(inventory_logs,
              LAMBDA e : /\ e.rid = rid
                         /\ e.reason = "PURCHASE_RECEIVED"
                         /\ e.ref_table = Some("purchases")
                         /\ e.ref_id = Some(purchaseId))

\* C17: every stock write of a receipt raises the stock of the item's product
\* by the item's quantity, and in the step in which a receipt answers success
\* its purchase is received and the log has exactly one PURCHASE_RECEIVED
\* entry referring to the purchase for each of its N items
C17_ReceiveEffect ==
    [][\A p \in Procs :
          (h[p].op = "receive" /\ h[p].pc = "update_stock" /\ h'[p] # h[p])
          => LET item == h[p].items[h[p].idx] IN
             /\ products'[item.product_id].stock
                   = products[item.product_id].stock + item.quantity
             /\ h'[p].resp = Resp(200, "success")
                   => /\ purchases'[h[p].purchaseId].status = "received"
                      /\ Len(ReceiptLogs(h[p].rid, h[p].purchaseId))
                            = Len(h[p].items)]_vars

\* the rows of purchase_items of purchase id
ItemsOfPurchase(id) ==
    SelectSeq(purchase_items, LAMBDA r : r.purchase_id = id)

\* C18: every stock write of a receipt is the product and quantity of a stored
\* item of the received purchase, and once a receipt has answered success
\* every stored item of the purchase has exactly one stock write and one log
\* entry of that receipt
C18_ReceivedOwnItems ==
    \A p \in Procs :
        h[p].op = "receive"
        => /\ \A i \in DOMAIN stock_writes :
                 stock_writes[i].rid = h[p].rid
                 => \E j \in DOMAIN purchase_items :
                       /\ purchase_items[j].purchase_id = h[p].purchaseId
                       /\ purchase_items[j].product_id = stock_writes[i].product_id
                       /\ purchase_items[j].quantity = stock_writes[i].delta
           /\ (h[p].pc = "done" /\ h[p].resp = Resp(200, "success"))
                 => \A j \in DOMAIN purchase_items :
                       purchase_items[j].purchase_id = h[p].purchaseId
                       => /\ CountWrites(h[p].rid, purchase_items[j].product_id,
                                         purchase_items[j].quantity) = 1
                          /\ CountLogs(h[p].rid, purchase_items[j].product_id,
                                       purchase_items[j].quantity) = 1

(* ================== properties under failing database calls ============ *)
\* C19: a manual adjustment that answered success has its log entry and its
\* stock write of the requested change, and a receipt that answered success
\* has a log entry and a stock write for every one of its items
C19_SuccessMeansApplied ==
    \A p \in Procs :
        (h[p].pc = "done" /\ h[p].resp = Resp(200, "success"))
        => /\ h[p].op = "adjust"
                => /\ CountLogs(h[p].rid, h[p].product_id, h[p].change) = 1
                   /\ CountWrites(h[p].rid, h[p].product_id, h[p].change) = 1
           /\ h[p].op = "receive"
                => \A i \in DOMAIN h[p].items :
                      /\ CountLogs(h[p].rid, h[p].items[i].product_id,
                                   h[p].items[i].quantity) >= 1
                      /\ CountWrites(h[p].rid, h[p].items[i].product_id,
                                     h[p].items[i].quantity) >= 1

(* ================= properties of applying a service ==================== *)
\* C20: a service application that read a linked product whose stock is
\* smaller than the linked quantity is answered with an error and has
\* written the stock of no product
C20_InsufficientApplyNoEffect ==
    \A p \in Procs :
        (/\ h[p].op = "apply" /\ h[p].pc = "done"
         /\ \E i \in DOMAIN h[p].sps : h[p].sps[i].stock < h[p].sps[i].quantity)
        => /\ h[p].resp.code # 200
           /\ \A i \in DOMAIN stock_writes : stock_writes[i].rid # h[p].rid

(* ==================== properties of the audit trail ==================== *)
\* audit log entries of request rid
AuditEntries(rid) == SelectSeq(audit_logs, LAMBDA e : e.rid = rid)

\* C21: the step in which a manual adjustment ends without its audit entry
\* having been appended leaves the stock of every product, the stock writes
\* made and the inventory log as they are, the log entry of the adjustment
\* is in place and the answer is success
C21_AuditFailureKeepsAdjustment ==
    [][\A p \in Procs :
          (/\ h[p].op = "adjust" /\ h[p].pc = "audit" /\ h'[p] # h[p]
           /\ Len(AuditEntries(h[p].rid))' = 0)
          => /\ products' = products
             /\ stock_writes' = stock_writes
             /\ inventory_logs' = inventory_logs
             /\ CountLogs(h[p].rid, h[p].product_id, h[p].change) = 1
             /\ h'[p].pc = "done"
             /\ h'[p].resp = Resp(200, "success")]_vars

\* a manual adjustment answered success, its stock write and its log entry
\* are in place, and it has no audit entry
C21_Witness ==
    \E p \in Procs :
        /\ h[p].op = "adjust" /\ h[p].pc = "done"
        /\ h[p].resp = Resp(200, "success")
        /\ Len(AuditEntries(h[p].rid)) = 0
        /\ CountLogs(h[p].rid, h[p].product_id, h[p].change) = 1
        /\ CountWrites(h[p].rid, h[p].product_id, h[p].change) = 1
        /\ products[h[p].product_id].stock # InitStock(h[p].product_id)

\* sequence s is an initial part of sequence t
IsPrefixOf(s, t) ==
    /\ Len(s) <= Len(t)
    /\ \A i \in DOMAIN s : t[i] = s[i]

\* C22: in every step every entry of the inventory log and of the audit log
\* stays as it is and none is removed; the logs only grow
C22_LogsAppendOnly ==
    [][/\ IsPrefixOf(inventory_logs, inventory_logs')
       /\ IsPrefixOf(audit_logs, audit_logs')]_vars

\* two requests have written to the inventory log and the audit log has an
\* entry
C22_Witness ==
    /\ \E i, j \in DOMAIN inventory_logs :
          i < j /\ inventory_logs[i].rid # inventory_logs[j].rid
    /\ Len(audit_logs) >= 1

(* ================== properties of the low-stock advice ================== *)
\* the products at or below their reorder level
LowStockProducts == {prod \in Products : products[prod].stock <= products[prod].reorder_level}

\* C23: an admin's low-stock listing answers with exactly the products whose
\* stock is <= reorder_level, an admin's suggestions request with one entry
\* for each of them of quantity max(reorder_level - stock, 0), and neither
\* changes a table
C23_LowStockAdvice ==
    [][\A p \in Procs :
          (h[p].pc = "idle" /\ h'[p] # h[p]
              /\ h'[p].op \in {"low_stock", "suggestions"}
              /\ verifyAdmin(h'[p].token) = 0)
          => /\ h'[p].resp.code = 200
             /\ h'[p].op = "low_stock" => h'[p].data = Some(LowStockProducts)
             /\ h'[p].op = "suggestions"
                   => h'[p].data =
                        Some({ [product_id |-> prod,
                                suggested_order_qty |->
                                   IF products[prod].reorder_level > products[prod].stock
                                   THEN products[prod].reorder_level - products[prod].stock
                                   ELSE 0] : prod \in LowStockProducts })
             /\ products' = products
             /\ inventory_logs' = inventory_logs
             /\ audit_logs' = audit_logs]_vars

(* ================== properties of the admin operations ================= *)
\* the operations meant for admins only
AdminOps == {"decide", "create_purchase", "from_requisition", "receive"}

\* C24: every step of a request for an admin operation that does not carry a
\* verified admin token ends the request with 401 or 403 and leaves the
\* requisitions, the purchases and their items, the stock and the logs as
\* they are
C24_AdminOnly ==
    [][\A p \in Procs :
          (h'[p] # h[p] /\ h'[p].op \in AdminOps /\ verifyAdmin(h'[p].token) # 0)
          => /\ h'[p].pc = "done"
             /\ h'[p].resp.code \in {401, 403}
             /\ purchase_requisitions' = purchase_requisitions
             /\ purchases' = purchases
             /\ purchase_items' = purchase_items
             /\ products' = products
             /\ inventory_logs' = inventory_logs
             /\ audit_logs' = audit_logs]_vars

\* C25: once a purchase creation, direct or from a requisition, has been
\* answered, with success or with an error, the purchase row it created has
\* one or more items
C25_PurchaseHasItems ==
    \A p \in Procs :
        (h[p].op \in {"create_purchase", "from_requisition"} /\ h[p].pc = "done"
            /\ h[p].purchase_id # 0)
        => Len(ItemsOfPurchase(h[p].purchase_id)) > 0

(* ===================== properties of the whole ledger ================== *)
RECURSIVE SumChanges(_, _, _)
\* sum of the change fields of the entries i.. of log es that are on prod
SumChanges(es, i, prod) ==
    IF i > Len(es) THEN 0
    ELSE (IF es[i].product_id = prod THEN es[i].change ELSE 0)
            + SumChanges(es, i + 1, prod)

\* C26: when no request is in flight, the stock of every product is its
\* stock at the start plus the sum of the changes of its inventory log
\* entries, whichever handlers have written the stock
C26_LedgerReconciles ==
    Quiescent
    => \A prod \in Products :
          products[prod].stock = InitStock(prod) + SumChanges(inventory_logs, 1, prod)

\* the requests that created a purchase from requisition id
PurchasesFrom(id) ==
    {p \in Procs : /\ h[p].op = "from_requisition"
                   /\ h[p].requisition_id = id
                   /\ h[p].purchase_id # 0}

\* C27: of the purchase creations made for one requisition, concurrent or
\* one after another, at most one creates a purchase
C27_OnePurchasePerRequisition ==
    \A id \in DOMAIN purchase_requisitions : Cardinality(PurchasesFrom(id)) <= 1

\* entries i < j of the inventory log are on the same product with no entry
\* on that product between them
ConsecutiveEntries(i, j) ==
    /\ i < j
    /\ inventory_logs[i].product_id = inventory_logs[j].product_id
    /\ \A k \in DOMAIN inventory_logs :
          (i < k /\ k < j) => inventory_logs[k].product_id # inventory_logs[i].product_id

\* the stock write that entry i of the inventory log describes was made
EntryApplied(i) ==
    CountWrites(inventory_logs[i].rid, inventory_logs[i].product_id,
                inventory_logs[i].change) >= 1

\* C28: when no request is in flight, the snapshots of the inventory log
\* form a chain per product: of two consecutive entries of a product whose
\* stock writes were made, the later one's previous_stock is the earlier
\* one's new_stock
C28_LogChain ==
    Quiescent
    => \A i, j \in DOMAIN inventory_logs :
          (ConsecutiveEntries(i, j) /\ EntryApplied(i) /\ EntryApplied(j))
          => inventory_logs[j].previous_stock = inventory_logs[i].new_stock

RECURSIVE SumQuantity(_, _, _)
\* total quantity the rows i.. of sps link to prod
SumQuantity(sps, i, prod) ==
    IF i > Len(sps) THEN 0
    ELSE (IF sps[i].product_id = prod THEN sps[i].quantity ELSE 0)
            + SumQuantity(sps, i + 1, prod)

\* C29: after a service application that answered success, no other request
\* having been made, the stock of every product is its stock at the start
\* less the total quantity the rows read link to it
C29_ApplyDeductsTotal ==
    \A p \in Procs :
        (/\ h[p].op = "apply" /\ h[p].pc = "done" /\ h[p].resp.code = 200
         /\ \A q \in Procs : q # p => h[q].pc = "idle")
        => \A prod \in Products :
              products[prod].stock = InitStock(prod) - SumQuantity(h[p].sps, 1, prod)

(* ==================== properties of the users service ================== *)
\* C30: of the requests that need no token, no login answers with a token
\* whose role is admin, and every token a login issues is for a user whose
\* active flag is true
C30_NoSelfMadeAdmin ==
    \A p \in Procs :
        (h[p].op = "login" /\ h[p].token # Null)
        => /\ h[p].token[1].role # "admin"
           /\ users[h[p].token[1].user_id].active

====
